---- MODULE Spec2Model ----
(***************************************************************************)
(* Dijkstra's single-source shortest path over an abstract graph           *)
(* (src/lib.rs): Graph::shortest_path builds the predecessor map,          *)
(* ShortestPath::prev looks one link up, ShortestPath::sequence walks the  *)
(* links back from a goal.                                                 *)
(***************************************************************************)
EXTENDS Integers, Sequences, FiniteSets, TLC

\* ------------------------------------------------------------- bounds
NumNodes == 3
MaxCost == 1
MaxEdges == 2
MaxRuns == 2

VARIABLES
    graph,      \* the caller's graph: the set of edges neighbors draws from
    start,      \* shortest_path's start argument
    distance,   \* BTreeMap<Node, Cost>, a function on the keys present
    prev,       \* BTreeMap<Node, (Node, Edge)>, a function on the keys present
    visited,    \* the keys of BTreeMap<Node, ()>
    maybe,      \* Option<(min, min_cost)> of the current loop iteration
    hops,       \* what the for loop over neighbors(min) has still to evaluate
    pc,         \* "select", "relax", "done", "walk", "returned"
    args,       \* Option<(start, goal)>: the arguments of the sequence call
    this,       \* Option<Node>: sequence's cursor
    sequence,   \* sequence's Vec<(Node, Edge)>
    run,        \* how many times shortest_path was called on this graph
    lastResult  \* Option<ShortestPath>: what the previous call returned

vars == <<graph, start, distance, prev, visited, maybe, hops, pc, args, this,
          sequence, run, lastResult>>

\* ------------------------------------------------------------- values
None == << >>
Some(x) == <<x>>
Unwrap(o) == o[1]

Nodes == 0 .. (NumNodes - 1)
\* a walk over a cycle of links is cut after MaxSeq pairs
MaxSeq == NumNodes + 1
Costs == 0 .. MaxCost
\* the test's Context is the unit type
context == "unit"

\* EdgeImpl: the caller's edge type
EdgeImpl == [from : Nodes, to : Nodes, weight : Costs]

\* Edge::cost: a pure function of the edge and the context
cost(edge, ctx) == edge.weight

\* BTreeMap::insert
Insert(map, key, value) ==
    [k \in (DOMAIN map) \cup {key} |-> IF k = key THEN value ELSE map[k]]

\* BTreeMap::get(..).is_none()
IsNone(map, key) == key \notin DOMAIN map

EmptyMap == [k \in {} |-> 0]

RECURSIVE GraphsUpTo(_)
GraphsUpTo(k) ==
    IF k = 0 THEN {{}}
    ELSE LET smaller == GraphsUpTo(k - 1)
         IN  smaller \cup {g \cup {e} : g \in smaller, e \in EdgeImpl}

\* Graph::neighbors: every hop (adjacent node, edge) leaving node
neighbors(node) == {<<e.to, e>> : e \in {x \in graph : x.from = node}}

\* ------------------------------------------------------------- shortest_path
\* the start state with a zero distance recorded for every node
InitEveryDistanceZero ==
    /\ graph \in GraphsUpTo(MaxEdges)
    /\ start \in Nodes
    /\ distance = [n \in Nodes |-> 0]
    /\ prev = EmptyMap
    /\ visited = {}
    /\ maybe = None
    /\ hops = {}
    /\ pc = "select"
    /\ args = None
    /\ this = None
    /\ sequence = << >>
    /\ run = 1
    /\ lastResult = None

\* lines 64-68: the maps as the loop first sees them
Init ==
    /\ graph \in GraphsUpTo(MaxEdges)
    /\ start \in Nodes
    /\ distance = Insert(EmptyMap, start, 0)
    /\ prev = EmptyMap
    /\ visited = {}
    /\ maybe = None
    /\ hops = {}
    /\ pc = "select"
    /\ args = None
    /\ this = None
    /\ sequence = << >>
    /\ run = 1
    /\ lastResult = None

\* the selection without its filter on visited
FrontierUnfiltered == DOMAIN distance

\* .filter(|&(n, _)| visited.get(n).is_none())
Frontier == {n \in DOMAIN distance : n \notin visited}

\* .min_by(|&(_, left), &(_, right)| left.cmp(right)): of several equally
\* minimal elements min_by returns the first, and a BTreeMap iterates in key order
MinBy(S) ==
    CHOOSE n \in S : \A m \in S :
        \/ distance[n] < distance[m]
        \/ distance[n] = distance[m] /\ n <= m

\* the relaxation with a strict comparison
RelaxCondStrict(node, alt) == IsNone(distance, node) \/ distance[node] > alt

\* the relaxation with no comparison
RelaxCondAlways(node, alt) == TRUE

\* this_distance.is_none() || this_distance.unwrap().clone() >= alt
RelaxCond(node, alt) == IsNone(distance, node) \/ distance[node] >= alt

\* lines 70-80: select the minimal unvisited node, or leave the loop
Select ==
    /\ pc = "select"
    /\ IF Frontier = {}
       THEN /\ maybe' = None
            /\ pc' = "done"
            /\ UNCHANGED <<visited, hops>>
       ELSE LET min == MinBy(Frontier)
            IN  /\ maybe' = Some(<<min, distance[min]>>)
                /\ visited' = visited \cup {min}
                /\ hops' = neighbors(min)
                /\ pc' = IF neighbors(min) = {} THEN "select" ELSE "relax"
    /\ UNCHANGED <<graph, start, distance, prev, args, this, sequence, run, lastResult>>

\* lines 82-89: one iteration of the for loop, in whatever order neighbors
\* enumerates the hops
Relax ==
    /\ pc = "relax"
    /\ \E hop \in hops :
        LET min == Unwrap(maybe)[1]
            min_cost == Unwrap(maybe)[2]
            node == hop[1]
            edge == hop[2]
            alt == min_cost + cost(edge, context)
        IN  /\ IF RelaxCond(node, alt)
               THEN /\ distance' = Insert(distance, node, alt)
                    /\ prev' = Insert(prev, node, <<min, edge>>)
               ELSE UNCHANGED <<distance, prev>>
            /\ hops' = hops \ {hop}
            /\ pc' = IF hops \ {hop} = {} THEN "select" ELSE "relax"
    /\ UNCHANGED <<graph, start, visited, maybe, args, this, sequence, run, lastResult>>

\* ------------------------------------------------------------- ShortestPath
\* ShortestPath::prev
Prev(node) == IF node \in DOMAIN prev THEN Some(prev[node]) ELSE None

\* sequence(start, goal), lines 32-34, on the result shortest_path returned
SequenceCall ==
    /\ pc = "done"
    /\ \E s \in Nodes, goal \in Nodes :
        /\ args' = Some(<<s, goal>>)
        /\ this' = Some(goal)
    /\ sequence' = << >>
    /\ pc' = "walk"
    /\ UNCHANGED <<graph, start, distance, prev, visited, maybe, hops, run, lastResult>>

\* if this == start.clone() { break }
AtStart(node, s) == node = s

\* the loop of sequence with the lookup placed before the comparison with start
SequenceStepLookupFirst ==
    /\ pc = "walk"
    /\ IF Prev(Unwrap(this)) = None
       THEN /\ pc' = "returned"
            /\ UNCHANGED <<this, sequence>>
       ELSE /\ Len(sequence) < MaxSeq
            /\ sequence' = Append(sequence, Unwrap(Prev(Unwrap(this))))
            /\ this' = Some(Unwrap(Prev(Unwrap(this)))[1])
            /\ pc' = IF AtStart(Unwrap(Prev(Unwrap(this)))[1], Unwrap(args)[1])
                     THEN "returned" ELSE "walk"
    /\ UNCHANGED <<graph, start, distance, prev, visited, maybe, hops, args, run, lastResult>>

\* lines 35-47: one iteration of sequence's loop
SequenceStep ==
    /\ pc = "walk"
    /\ IF AtStart(Unwrap(this), Unwrap(args)[1]) \/ Prev(Unwrap(this)) = None
       THEN /\ pc' = "returned"
            /\ UNCHANGED <<this, sequence>>
       ELSE /\ Len(sequence) < MaxSeq
            /\ sequence' = Append(sequence, Unwrap(Prev(Unwrap(this))))
            /\ this' = Some(Unwrap(Prev(Unwrap(this)))[1])
            /\ pc' = "walk"
    /\ UNCHANGED <<graph, start, distance, prev, visited, maybe, hops, args, run, lastResult>>

Next == Select \/ Relax \/ SequenceCall \/ SequenceStep

Spec == Init /\ [][Next]_vars

\* sequence as a function of the predecessor map: Some(pairs), or None when
\* the walk has emitted more than NumNodes pairs, which only a cycle of
\* links allows, and then the loop never breaks
RECURSIVE Walk(_, _, _, _, _)
Walk(pm, s, node, acc, fuel) ==
    IF AtStart(node, s) \/ node \notin DOMAIN pm THEN Some(acc)
    ELSE IF fuel = 0 THEN None
    ELSE Walk(pm, s, pm[node][1], Append(acc, pm[node]), fuel - 1)

SequenceOf(pm, s, goal) == Walk(pm, s, goal, << >>, NumNodes)

\* the caller calls shortest_path again, same graph, context and start
Rerun ==
    /\ pc = "done"
    /\ run < MaxRuns
    /\ lastResult' = Some(prev)
    /\ run' = run + 1
    /\ distance' = Insert(EmptyMap, start, 0)
    /\ prev' = EmptyMap
    /\ visited' = {}
    /\ maybe' = None
    /\ hops' = {}
    /\ pc' = "select"
    /\ UNCHANGED <<graph, start, args, this, sequence>>

NextRerun == Select \/ Relax \/ Rerun

SpecRerun == Init /\ [][NextRerun]_vars

\* the loop of shortest_path runs to its end: the code is sequential
FairSpec == Spec /\ WF_vars(Select \/ Relax)

\* ------------------------------------------------------------- reference
\* what the graph itself says, independent of the search: every hop
\* (node, adjacent node, edge) that neighbors returns
Hops == UNION {{<<m, h[1], h[2]>> : h \in neighbors(m)} : m \in Nodes}

Inf == NumNodes * MaxCost + 1

Min(S) == CHOOSE x \in S : \A y \in S : x <= y

RECURSIVE BellmanFord(_, _)
BellmanFord(d, rounds) ==
    IF rounds = 0 THEN d
    ELSE BellmanFord(
            [n \in Nodes |->
                Min({d[n]} \cup {d[h[1]] + cost(h[3], context) :
                                    h \in {x \in Hops : x[2] = n /\ d[x[1]] < Inf}})],
            rounds - 1)

\* the minimal cost of any path from start to each node, Inf when there is none
MinDist == BellmanFord([n \in Nodes |-> IF n = start THEN 0 ELSE Inf], NumNodes)

RECURSIVE Closure(_, _)
Closure(S, rounds) ==
    IF rounds = 0 THEN S
    ELSE Closure(S \cup {h[2] : h \in {x \in Hops : x[1] \in S}}, rounds - 1)

\* the nodes reachable from start through hops that neighbors returns
Reachable == Closure({start}, NumNodes)

RECURSIVE SumCost(_)
SumCost(pairs) ==
    IF pairs = << >> THEN 0
    ELSE cost(Head(pairs)[2], context) + SumCost(Tail(pairs))

\* pairs is what a walk from goal emits along links: each pair holds the
\* predecessor of the node before it and the edge neighbors returned for that hop
IsChain(pairs, goal) ==
    \A i \in 1 .. Len(pairs) :
        LET current == IF i = 1 THEN goal ELSE pairs[i - 1][1]
        IN  /\ <<pairs[i][1], current, pairs[i][2]>> \in Hops
            /\ Prev(current) = Some(pairs[i])

\* no node is emitted twice; the walk is a function of its cursor, so a node
\* emitted twice is emitted for ever
NoRevisit(pairs) ==
    \A i, j \in 1 .. Len(pairs) : i < j => pairs[i][1] # pairs[j][1]

Walking == pc \in {"walk", "returned"}
SeqStart == Unwrap(args)[1]
SeqGoal == Unwrap(args)[2]

\* pairs describe a path that ends at goal: each pair holds a node and the
\* edge of a hop from that node to the node before it
IsPath(pairs, goal) ==
    \A i \in 1 .. Len(pairs) :
        LET current == IF i = 1 THEN goal ELSE pairs[i - 1][1]
        IN  <<pairs[i][1], current, pairs[i][2]>> \in Hops

\* the node the walk has reached
LastNode(pairs, goal) == IF pairs = << >> THEN goal ELSE pairs[Len(pairs)][1]

\* ------------------------------------------------------------- claims

\* C1: for every goal reachable from start, the pairs sequence(start, goal)
\* returns describe a path of the graph from start to goal, and the sum of
\* their edge costs is the minimal cost of any path from start to goal. A
\* returned sequence is finite, so the walk emits no node twice.
C1_ReconstructedPathIsShortest ==
    (Walking /\ SeqStart = start /\ SeqGoal \in Reachable) =>
        /\ NoRevisit(sequence)
        /\ IsPath(sequence, SeqGoal)
        /\ pc = "returned" =>
            /\ LastNode(sequence, SeqGoal) = start
            /\ SumCost(sequence) = MinDist[SeqGoal]

\* C2: sequence(start, goal) terminates: the links form a tree rooted at
\* start, so a walk over the NumNodes nodes emits fewer than NumNodes pairs.
C2_SequenceTerminates ==
    (Walking /\ SeqStart = start) => Len(sequence) < NumNodes

\* C3: the result of shortest_path holds no predecessor entry for start.
C3_NoPredecessorForStart == Prev(start) = None

\* C5: for a reachable goal other than start, sequence(start, goal) begins
\* with prev(goal), every later pair is prev of the node of the pair before it,
\* every pair holds an edge of the graph from its node to the current node,
\* and the node of the last pair is start; having a last pair, the walk
\* never comes back to goal or to a node it has emitted.
C5_SequenceGoalToStart ==
    (Walking /\ SeqStart = start /\ SeqGoal # start /\ SeqGoal \in Reachable) =>
        /\ IsChain(sequence, SeqGoal)
        /\ \A i \in 1 .. Len(sequence) : sequence[i][1] # SeqGoal
        /\ NoRevisit(sequence)
        /\ pc = "returned" =>
            /\ sequence # << >>
            /\ sequence[1] = prev[SeqGoal]
            /\ sequence[Len(sequence)][1] = start

\* C4: a node that no chain of hops from start reaches has no predecessor
\* entry, and sequence(start, g) for such a node g emits no pair whose node
\* is start.
C4_UnreachableHasNoPredecessor ==
    /\ \A g \in Nodes \ Reachable : Prev(g) = None
    /\ (Walking /\ SeqStart = start /\ SeqGoal \notin Reachable) =>
            \A i \in 1 .. Len(sequence) : sequence[i][1] # start

\* sequence(start, g) has returned for a node g that start does not reach
\* although an edge of the graph joins g to a node start reaches
C4_Witness ==
    /\ pc = "returned"
    /\ SeqStart = start
    /\ SeqGoal \notin Reachable
    /\ \E e \in graph : e.from = SeqGoal /\ e.to \in Reachable
    /\ DOMAIN prev # {}

\* a measure of the work shortest_path has left: the unvisited nodes, then
\* the hops of the current node still to evaluate
Rank ==
    IF pc \notin {"select", "relax"} THEN 0
    ELSE 1 + Cardinality(hops)
           + Cardinality(Nodes \ visited) * (Cardinality(graph) + 2)

\* every iteration of the loop marks exactly one node visited that was not
\* visited before, the loop exits exactly when no node with a recorded
\* distance is unvisited, and every step of the loop lowers Rank
C6_LoopSteps ==
    [][ /\ pc = "select" =>
            IF \E n \in DOMAIN distance : n \notin visited
            THEN /\ pc' # "done"
                 /\ \E n \in DOMAIN distance :
                        n \notin visited /\ visited' = visited \cup {n}
            ELSE pc' = "done" /\ visited' = visited
        /\ pc = "relax" => visited' = visited /\ pc' # "done"
        /\ pc \in {"select", "relax"} => Rank' < Rank
      ]_vars

\* C6: the loop of shortest_path terminates: every iteration finalizes
\* exactly one node that was not visited before (a node enters the visited
\* set at most once), the loop exits exactly when no node with a recorded
\* distance is unvisited, and it does exit.
C6_LoopTerminates == C6_LoopSteps /\ <>(pc = "done")

\* the loop has exited after finalizing every node start reaches, two of
\* them on a cycle
C6_Witness ==
    /\ pc = "done"
    /\ visited = Reachable
    /\ \E e \in graph :
        e.from \in visited /\ e.from # e.to /\ e.from \in Closure({e.to}, NumNodes)

\* the cost of the path a result reports for goal: the sum over
\* sequence(start, goal) when it reaches start
PathCost(pm, goal) ==
    LET r == SequenceOf(pm, start, goal)
    IN  IF r = None THEN <<"diverges">>
        ELSE IF LastNode(Unwrap(r), goal) = start
             THEN <<"cost", SumCost(Unwrap(r))>>
             ELSE <<"nopath">>

\* C7: two calls of shortest_path on the same graph, context and start
\* report the same path cost for every goal, whatever order the hops of a
\* node were evaluated in.
C7_SameCostsOnRerun ==
    (pc = "done" /\ lastResult # None) =>
        \A goal \in Nodes : PathCost(prev, goal) = PathCost(Unwrap(lastResult), goal)

\* a second call has ended on a graph where a node has two hops to the same
\* neighbour, of different cost, whose order decides what is overwritten
C7_Witness ==
    /\ pc = "done"
    /\ lastResult # None
    /\ \E e1 \in graph, e2 \in graph :
        /\ e1.from = start /\ e2.from = start
        /\ e1.to = e2.to /\ e1.to # start
        /\ e1.weight < e2.weight
        /\ PathCost(prev, e1.to) = <<"cost", e1.weight>>

\* C8: sequence(n, n) returns the empty sequence, whatever the predecessor
\* map holds for n.
C8_SequenceToSelfIsEmpty ==
    (Walking /\ SeqStart = SeqGoal) =>
        /\ sequence = << >>
        /\ this = Some(SeqGoal)

\* sequence(n, n) has returned for a node n that has a predecessor entry
C8_Witness ==
    /\ pc = "returned"
    /\ SeqStart = SeqGoal
    /\ Prev(SeqGoal) # None

\* C9: in every step of the loop of shortest_path, the recorded distance of
\* a visited node does not change and is
\* the minimal cost of any path from start to the node; a recorded distance
\* is only ever replaced by a value lower than or equal to it.
C9_VisitedDistanceIsFinal ==
    [][ (pc \in {"select", "relax"}) =>
            LET minimal == MinDist
            IN  /\ \A n \in visited :
                    /\ distance[n] = minimal[n]
                    /\ distance'[n] = distance[n]
                /\ \A n \in visited' : distance'[n] = minimal[n]
                /\ \A n \in DOMAIN distance :
                    n \in DOMAIN distance' /\ distance'[n] <= distance[n]
      ]_vars

\* the loop has ended with a visited node other than start that a hop of
\* the graph offered a costlier path, which left its distance as it was
C9_Witness ==
    /\ pc = "done"
    /\ \E n \in visited \ {start} : \E e \in graph :
        /\ e.to = n
        /\ e.from \in visited
        /\ distance[e.from] + cost(e, context) > distance[n]

\* C10: the relaxation of a hop (a, e) of the finalized node m sets the
\* distance of a to alt and its predecessor to (m, e) exactly when a has no
\* recorded distance or one greater than or equal to alt; otherwise both maps
\* stay as they are. No other entry changes.
C10_RelaxationOverwritesOnTie ==
    [][ pc = "relax" =>
            \E hop \in hops :
                LET m == Unwrap(maybe)[1]
                    a == hop[1]
                    e == hop[2]
                    alt == Unwrap(maybe)[2] + cost(e, context)
                IN  /\ hops' = hops \ {hop}
                    /\ IF a \notin DOMAIN distance \/ distance[a] >= alt
                       THEN /\ DOMAIN distance' = DOMAIN distance \cup {a}
                            /\ DOMAIN prev' = DOMAIN prev \cup {a}
                            /\ distance'[a] = alt
                            /\ prev'[a] = <<m, e>>
                            /\ \A n \in DOMAIN distance \ {a} : distance'[n] = distance[n]
                            /\ \A n \in DOMAIN prev \ {a} : prev'[n] = prev[n]
                       ELSE distance' = distance /\ prev' = prev
      ]_vars

\* a hop of equal cost has overwritten the predecessor of a node that was
\* reached from start before
C10_Witness ==
    /\ pc = "select"
    /\ maybe # None
    /\ \E a \in DOMAIN prev :
        /\ a # start
        /\ prev[a][1] = Unwrap(maybe)[1]
        /\ prev[a][1] # start
        /\ \E e \in graph :
            e.from = start /\ e.to = a /\ cost(e, context) = distance[a]

====
